---- MODULE Spec2Model ----
(***************************************************************************)
(* Fraud pipeline of app/: score_risk (agents_detection.py), build_evidence *)
(* and investigator_rationale (agents_investigation.py), decide            *)
(* (agents_decision.py), process_txn (pipeline.py) over the transactions   *)
(* and cases tables of repo.py and the case PDF directory, sim_loop        *)
(* (main.py), seed_historical_transactions (simulator.py), purge_old_data  *)
(* (repo.py), and the perf windows, api_system rate, /ws handler and       *)
(* broadcast of main.py.                                                   *)
(*                                                                         *)
(* Amounts are integer cents (the simulator rounds amounts to 2 decimals); *)
(* the baseline ratio is in hundredths (round(x, 2) * 100).  A key that is *)
(* absent from a dict is the value Absent (AbsentNum for numeric fields);  *)
(* dict.get(k) of an absent key yields None, modelled by the same marker.  *)
(***************************************************************************)
EXTENDS Integers, Sequences, FiniteSets, TLC

VARIABLES
    transactions,   \* rows of table "transactions" (models.py Transaction)
    cases,          \* rows of table "cases" (models.py Case)
    pdf_files,      \* case ids whose PDF exists under CASE_PDF_DIR
    pc,             \* position of the running call
    txn,            \* the txn argument of the running call
    risk,           \* result of score_risk
    recent,         \* result of fetch_recent_account_txns
    reuse,          \* result of fetch_reuse_txns
    evidence,       \* evidence argument / result of build_evidence
    dec,            \* result of decide
    case,           \* the case dict being assembled by process_txn
    result,         \* value returned by process_txn
    uuid_counter,   \* number of uuid4() values drawn by make_case_id
    calls,          \* collaborators the running process_txn has called, in order
    returned,       \* (txn_id, risk_level) of the process_txn calls that returned
    rationale,      \* result of investigator_rationale
    broadcasts,     \* payloads sim_loop has handed to broadcast in this iteration
    tx_window,      \* main.py tx_window, a deque of maxlen 200
    alerts_window,  \* main.py alerts_window, a deque of maxlen 200
    flag_file,      \* whether the file flag_path ("seeded.flag") exists
    seed_pc,        \* position of seed_historical_transactions
    seed_i,         \* rows the running seed_historical_transactions has inserted
    seed_runs,      \* outcome of every seed_historical_transactions call so far
    now,            \* datetime.now(timezone.utc), in days
    clients,        \* main.py clients, the set of connected websockets
    bc              \* the locals of the running broadcast call

simVars == <<broadcasts, tx_window, alerts_window>>
seedVars == <<flag_file, seed_pc, seed_i, seed_runs>>
wsVars == <<clients, bc>>

vars == <<transactions, cases, pdf_files, pc, txn, risk, recent, reuse,
          evidence, dec, case, result, uuid_counter, calls, returned,
          rationale, simVars, seedVars, now, wsVars>>

----------------------------------------------------------------------------
(* Python values *)

Absent == "<absent>"
AbsentNum == -1
NoneNum == -1

\* d.get(k, default) for a string-valued key
Get(v, default) == IF v = Absent THEN default ELSE v

Min(a, b) == IF a <= b THEN a ELSE b

\* round(n / d) to the nearest integer, ties to even (Python round)
RoundDiv(n, d) ==
    LET q == n \div d
        r == n % d
    IN  IF 2 * r < d THEN q
        ELSE IF 2 * r > d THEN q + 1
        ELSE IF q % 2 = 0 THEN q ELSE q + 1

RECURSIVE SumSeq(_)
SumSeq(s) == IF s = <<>> THEN 0 ELSE Head(s) + SumSeq(Tail(s))

RECURSIVE MaxSeq(_)
MaxSeq(s) ==
    IF Len(s) = 1 THEN Head(s)
    ELSE LET m == MaxSeq(Tail(s)) IN IF Head(s) >= m THEN Head(s) ELSE m

Prefix(s, n) == SubSeq(s, 1, Min(n, Len(s)))

----------------------------------------------------------------------------
(* agents_detection.py *)

GRADE_RISK(g) ==
    CASE g = "A" -> -5
      [] g = "B" -> 0
      [] g = "C" -> 8
      [] g = "D" -> 15
      [] OTHER -> 0

HIGH_RISK_TYPES == {"P2P_SEND", "CASHOUT"}
MED_RISK_TYPES == {"CASHIN", "MERCHPAY"}
HIGH_RISK_STATUS == {"chargeback"}
SOFT_RISK_STATUS == {"reversed", "declined"}

KeyError == [exc |-> "KeyError", risk_score |-> 0, risk_level |-> "", reasons |-> <<>>]

\* Level with the CRITICAL branch tested with > instead of >=
Level_strict(score) ==
    IF score > 85 THEN "CRITICAL"
    ELSE IF score >= 60 THEN "HIGH"
    ELSE IF score >= 35 THEN "MEDIUM"
    ELSE "LOW"

\* Level with the HIGH branch starting at 80 instead of 60
Level_high_80(score) ==
    IF score >= 85 THEN "CRITICAL"
    ELSE IF score >= 80 THEN "HIGH"
    ELSE IF score >= 35 THEN "MEDIUM"
    ELSE "LOW"

\* the level chain at the end of score_risk
Level(score) ==
    IF score >= 85 THEN "CRITICAL"
    ELSE IF score >= 60 THEN "HIGH"
    ELSE IF score >= 35 THEN "MEDIUM"
    ELSE "LOW"

\* txn["channel"], txn["country"] and txn["amount"] are subscripted
Subscripted(t) == t.channel # Absent /\ t.country # Absent /\ t.amount # AbsentNum

\* score_risk with the two amount tiers as independent ifs, so that both apply
score_risk_cumulative(t) ==
    IF ~Subscripted(t) THEN KeyError
    ELSE
    LET g == Get(t.customer_grade, "B")
        s1 == GRADE_RISK(g)
        r1 == IF g \in {"C", "D"} THEN <<<<"Lower customer grade", g>>>> ELSE <<>>
        cnp == t.channel = "card_not_present"
        s2 == s1 + (IF cnp THEN 18 ELSE 0)
        r2 == IF cnp THEN Append(r1, <<"Card-not-present", "">>) ELSE r1
        geo == t.country # t.home_country
        s3 == s2 + (IF geo THEN 22 ELSE 0)
        r3 == IF geo THEN Append(r2, <<"Geo mismatch vs home", "">>) ELSE r2
        ttype == Get(t.transaction_type, "MERCHPAY")
        s4 == s3 + (IF ttype \in HIGH_RISK_TYPES THEN 14
                    ELSE IF ttype \in MED_RISK_TYPES THEN 7 ELSE 0)
        r4 == IF ttype \in HIGH_RISK_TYPES
                  THEN Append(r3, <<"High-risk transaction type", ttype>>)
              ELSE IF ttype \in MED_RISK_TYPES
                  THEN Append(r3, <<"Medium-risk transaction type", ttype>>)
              ELSE r3
        st == Get(t.transaction_status, "approved")
        s5 == s4 + (IF st \in HIGH_RISK_STATUS THEN 35
                    ELSE IF st \in SOFT_RISK_STATUS THEN 8 ELSE 0)
        r5 == IF st \in HIGH_RISK_STATUS
                  THEN Append(r4, <<"Fraud-confirming status", st>>)
              ELSE IF st \in SOFT_RISK_STATUS
                  THEN Append(r4, <<"Suspicious status", st>>)
              ELSE r4
        amt == t.amount
        s5a == s5 + (IF amt >= 30000 THEN 12 ELSE 0)
        r5a == IF amt >= 30000 THEN Append(r5, <<"Amount >= 300", "">>) ELSE r5
        s6 == s5a + (IF amt >= 80000 THEN 25 ELSE 0)
        r6 == IF amt >= 80000 THEN Append(r5a, <<"High amount >= 800", "">>) ELSE r5a
        probe == ttype = "AIRTIME_RECHARGE" /\ amt <= 200 /\ cnp
        s7 == s6 + (IF probe THEN 18 ELSE 0)
        r7 == IF probe THEN Append(r6, <<"Probe-like small airtime recharge", "">>) ELSE r6
    IN  [exc |-> "", risk_score |-> s7, risk_level |-> Level(s7), reasons |-> r7]

score_risk(t) ==
    IF ~Subscripted(t) THEN KeyError
    ELSE
    LET g == Get(t.customer_grade, "B")
        s1 == GRADE_RISK(g)
        r1 == IF g \in {"C", "D"} THEN <<<<"Lower customer grade", g>>>> ELSE <<>>
        cnp == t.channel = "card_not_present"
        s2 == s1 + (IF cnp THEN 18 ELSE 0)
        r2 == IF cnp THEN Append(r1, <<"Card-not-present", "">>) ELSE r1
        geo == t.country # t.home_country
        s3 == s2 + (IF geo THEN 22 ELSE 0)
        r3 == IF geo THEN Append(r2, <<"Geo mismatch vs home", "">>) ELSE r2
        ttype == Get(t.transaction_type, "MERCHPAY")
        s4 == s3 + (IF ttype \in HIGH_RISK_TYPES THEN 14
                    ELSE IF ttype \in MED_RISK_TYPES THEN 7 ELSE 0)
        r4 == IF ttype \in HIGH_RISK_TYPES
                  THEN Append(r3, <<"High-risk transaction type", ttype>>)
              ELSE IF ttype \in MED_RISK_TYPES
                  THEN Append(r3, <<"Medium-risk transaction type", ttype>>)
              ELSE r3
        st == Get(t.transaction_status, "approved")
        s5 == s4 + (IF st \in HIGH_RISK_STATUS THEN 35
                    ELSE IF st \in SOFT_RISK_STATUS THEN 8 ELSE 0)
        r5 == IF st \in HIGH_RISK_STATUS
                  THEN Append(r4, <<"Fraud-confirming status", st>>)
              ELSE IF st \in SOFT_RISK_STATUS
                  THEN Append(r4, <<"Suspicious status", st>>)
              ELSE r4
        amt == t.amount
        s6 == s5 + (IF amt >= 80000 THEN 25 ELSE IF amt >= 30000 THEN 12 ELSE 0)
        r6 == IF amt >= 80000 THEN Append(r5, <<"High amount >= 800", "">>)
              ELSE IF amt >= 30000 THEN Append(r5, <<"Amount >= 300", "">>)
              ELSE r5
        probe == ttype = "AIRTIME_RECHARGE" /\ amt <= 200 /\ cnp
        s7 == s6 + (IF probe THEN 18 ELSE 0)
        r7 == IF probe THEN Append(r6, <<"Probe-like small airtime recharge", "">>) ELSE r6
    IN  [exc |-> "", risk_score |-> s7, risk_level |-> Level(s7), reasons |-> r7]

----------------------------------------------------------------------------
(* agents_decision.py *)

ActNone == "No action"
ActCritical == "Block transaction + lock account + step-up verification"
ActHigh == "Queue for manual review + step-up verification"
ActChargeback == "Confirmed fraud signal (chargeback): block + lock + investigation"
ActVelocity == "High-confidence fraud: CNP + geo mismatch + velocity"
ActRatio == "High-confidence fraud: amount extremely above baseline"

\* evidence.get("velocity_proxy_15", 0)
Velocity(ev) == IF ev.velocity_proxy_15 = AbsentNum THEN 0 ELSE ev.velocity_proxy_15

\* decide without the chargeback rule
decide_no_chargeback(t, rk, ev) ==
    LET d1 == IF rk.risk_level = "CRITICAL"
                  THEN [decision |-> "BLOCK", recommended_action |-> ActCritical]
              ELSE IF rk.risk_level = "HIGH"
                  THEN [decision |-> "REVIEW", recommended_action |-> ActHigh]
              ELSE [decision |-> "APPROVE", recommended_action |-> ActNone]
        d3 == IF /\ t.channel = "card_not_present"
                 /\ t.country # t.home_country
                 /\ Velocity(ev) >= 12
                  THEN [decision |-> "BLOCK", recommended_action |-> ActVelocity]
              ELSE d1
        ratio == ev.amount_vs_baseline_ratio
    IN  IF ratio # NoneNum /\ ratio >= 600
            THEN [decision |-> "BLOCK", recommended_action |-> ActRatio]
        ELSE d3

\* decide as an if/elif chain: the first rule that matches wins
decide_first_match(t, rk, ev) ==
    LET ratio == ev.amount_vs_baseline_ratio
    IN  IF rk.risk_level = "CRITICAL"
            THEN [decision |-> "BLOCK", recommended_action |-> ActCritical]
        ELSE IF rk.risk_level = "HIGH"
            THEN [decision |-> "REVIEW", recommended_action |-> ActHigh]
        ELSE IF t.transaction_status = "chargeback"
            THEN [decision |-> "BLOCK", recommended_action |-> ActChargeback]
        ELSE IF /\ t.channel = "card_not_present"
                /\ t.country # t.home_country
                /\ Velocity(ev) >= 12
            THEN [decision |-> "BLOCK", recommended_action |-> ActVelocity]
        ELSE IF ratio # NoneNum /\ ratio >= 600
            THEN [decision |-> "BLOCK", recommended_action |-> ActRatio]
        ELSE [decision |-> "APPROVE", recommended_action |-> ActNone]

\* decide with the ratio rule evaluated before the velocity rule
decide_ratio_early(t, rk, ev) ==
    LET d1 == IF rk.risk_level = "CRITICAL"
                  THEN [decision |-> "BLOCK", recommended_action |-> ActCritical]
              ELSE IF rk.risk_level = "HIGH"
                  THEN [decision |-> "REVIEW", recommended_action |-> ActHigh]
              ELSE [decision |-> "APPROVE", recommended_action |-> ActNone]
        d2 == IF t.transaction_status = "chargeback"
                  THEN [decision |-> "BLOCK", recommended_action |-> ActChargeback]
              ELSE d1
        ratio == ev.amount_vs_baseline_ratio
        d3 == IF ratio # NoneNum /\ ratio >= 600
                  THEN [decision |-> "BLOCK", recommended_action |-> ActRatio]
              ELSE d2
    IN  IF /\ t.channel = "card_not_present"
           /\ t.country # t.home_country
           /\ Velocity(ev) >= 12
            THEN [decision |-> "BLOCK", recommended_action |-> ActVelocity]
        ELSE d3

\* decide with the chargeback rule evaluated before the risk-level rule
decide_chargeback_first(t, rk, ev) ==
    LET d0 == IF t.transaction_status = "chargeback"
                  THEN [decision |-> "BLOCK", recommended_action |-> ActChargeback]
              ELSE [decision |-> "APPROVE", recommended_action |-> ActNone]
        d1 == IF rk.risk_level = "CRITICAL"
                  THEN [decision |-> "BLOCK", recommended_action |-> ActCritical]
              ELSE IF rk.risk_level = "HIGH"
                  THEN [decision |-> "REVIEW", recommended_action |-> ActHigh]
              ELSE d0
        d3 == IF /\ t.channel = "card_not_present"
                 /\ t.country # t.home_country
                 /\ Velocity(ev) >= 12
                  THEN [decision |-> "BLOCK", recommended_action |-> ActVelocity]
              ELSE d1
        ratio == ev.amount_vs_baseline_ratio
    IN  IF ratio # NoneNum /\ ratio >= 600
            THEN [decision |-> "BLOCK", recommended_action |-> ActRatio]
        ELSE d3

decide(t, rk, ev) ==
    LET d0 == [decision |-> "APPROVE", recommended_action |-> ActNone]
        d1 == IF rk.risk_level = "CRITICAL"
                  THEN [decision |-> "BLOCK", recommended_action |-> ActCritical]
              ELSE IF rk.risk_level = "HIGH"
                  THEN [decision |-> "REVIEW", recommended_action |-> ActHigh]
              ELSE d0
        d2 == IF t.transaction_status = "chargeback"
                  THEN [decision |-> "BLOCK", recommended_action |-> ActChargeback]
              ELSE d1
        d3 == IF /\ t.channel = "card_not_present"
                 /\ t.country # t.home_country
                 /\ Velocity(ev) >= 12
                  THEN [decision |-> "BLOCK", recommended_action |-> ActVelocity]
              ELSE d2
        ratio == ev.amount_vs_baseline_ratio
        d4 == IF ratio # NoneNum /\ ratio >= 600
                  THEN [decision |-> "BLOCK", recommended_action |-> ActRatio]
              ELSE d3
    IN  d4

----------------------------------------------------------------------------
(* agents_investigation.py *)

\* Counter(seq): value -> number of occurrences
Counter(s) ==
    [v \in {s[i] : i \in DOMAIN s} |-> Cardinality({i \in DOMAIN s : s[i] = v})]

FirstIndex(s, v) == CHOOSE i \in DOMAIN s : s[i] = v /\ \A j \in 1..(i - 1) : s[j] # v

\* most_common with equal counts ordered by latest first occurrence
most_common_latest(s, n) ==
    LET cnt == Counter(s)
        keys == DOMAIN cnt
        Before(a, b) == \/ cnt[a] > cnt[b]
                        \/ cnt[a] = cnt[b] /\ FirstIndex(s, a) > FirstIndex(s, b)
        Rank(a) == 1 + Cardinality({b \in keys : Before(b, a)})
    IN  [i \in 1..Min(n, Cardinality(keys)) |->
            LET a == CHOOSE k \in keys : Rank(k) = i IN <<a, cnt[a]>>]

\* Counter(seq).most_common(n): by count, largest first; equal counts keep
\* the order of first occurrence (heapq.nlargest is a stable selection)
most_common(s, n) ==
    LET cnt == Counter(s)
        keys == DOMAIN cnt
        Before(a, b) == \/ cnt[a] > cnt[b]
                        \/ cnt[a] = cnt[b] /\ FirstIndex(s, a) < FirstIndex(s, b)
        Rank(a) == 1 + Cardinality({b \in keys : Before(b, a)})
    IN  [i \in 1..Min(n, Cardinality(keys)) |->
            LET a == CHOOSE k \in keys : Rank(k) = i IN <<a, cnt[a]>>]

\* the sample taken as [:120], the whole window process_txn fetches
SampleSize_window == 80 + 40

SampleSize == 80
VelocityCap == 15
TopReuse == 6

\* txn["amount"] is subscripted
EvidenceKeyError == [exc |-> "KeyError"]

\* build_evidence returning ratio 0.0 instead of None when the average is 0
build_evidence_zero_ratio(t, rk, recent_account_txns, reuse_txns) ==
    IF t.amount = AbsentNum THEN EvidenceKeyError
    ELSE
    LET sample == Prefix(recent_account_txns, SampleSize)
        recent_amounts == [i \in DOMAIN sample |-> sample[i].amount]
        avg == IF recent_amounts # <<>>
                   THEN RoundDiv(SumSeq(recent_amounts), Len(recent_amounts)) ELSE 0
        mx == IF recent_amounts # <<>> THEN MaxSeq(recent_amounts) ELSE 0
        statuses == [i \in DOMAIN recent_account_txns |-> recent_account_txns[i].transaction_status]
        types == [i \in DOMAIN recent_account_txns |-> recent_account_txns[i].transaction_type]
        reuse_accounts == [i \in DOMAIN reuse_txns |-> reuse_txns[i].account_id]
        amt == t.amount
    IN  [risk_reasons |-> rk.reasons,
         risk_score |-> rk.risk_score,
         risk_level |-> rk.risk_level,
         recent_account_txn_count |-> Len(recent_account_txns),
         reuse_sample_count |-> Len(reuse_txns),
         acct_avg_amount_80 |-> avg,
         acct_max_amount_80 |-> mx,
         velocity_proxy_15 |-> Min(Len(recent_account_txns), VelocityCap),
         acct_status_counts |-> Counter(statuses),
         acct_type_counts |-> Counter(types),
         ip_or_device_reuse_accounts_top |-> most_common(reuse_accounts, TopReuse),
         amount_vs_baseline_ratio |-> IF avg > 0 THEN RoundDiv(100 * amt, avg) ELSE 0]

build_evidence(t, rk, recent_account_txns, reuse_txns) ==
    IF t.amount = AbsentNum THEN EvidenceKeyError
    ELSE
    LET sample == Prefix(recent_account_txns, SampleSize)
        recent_amounts == [i \in DOMAIN sample |-> sample[i].amount]
        avg == IF recent_amounts # <<>>
                   THEN RoundDiv(SumSeq(recent_amounts), Len(recent_amounts)) ELSE 0
        mx == IF recent_amounts # <<>> THEN MaxSeq(recent_amounts) ELSE 0
        statuses == [i \in DOMAIN recent_account_txns |-> recent_account_txns[i].transaction_status]
        types == [i \in DOMAIN recent_account_txns |-> recent_account_txns[i].transaction_type]
        reuse_accounts == [i \in DOMAIN reuse_txns |-> reuse_txns[i].account_id]
        amt == t.amount
    IN  [risk_reasons |-> rk.reasons,
         risk_score |-> rk.risk_score,
         risk_level |-> rk.risk_level,
         recent_account_txn_count |-> Len(recent_account_txns),
         reuse_sample_count |-> Len(reuse_txns),
         acct_avg_amount_80 |-> avg,
         acct_max_amount_80 |-> mx,
         velocity_proxy_15 |-> Min(Len(recent_account_txns), VelocityCap),
         acct_status_counts |-> Counter(statuses),
         acct_type_counts |-> Counter(types),
         ip_or_device_reuse_accounts_top |-> most_common(reuse_accounts, TopReuse),
         amount_vs_baseline_ratio |-> IF avg > 0 THEN RoundDiv(100 * amt, avg) ELSE NoneNum]

\* txn["country"] is subscripted
RationaleKeyError == << <<"KeyError", "", 0>> >>

\* investigator_rationale with the baseline statement at the 6.0 of decide
investigator_rationale_ratio6(t, rk, ev) ==
    IF t.country = Absent THEN RationaleKeyError
    ELSE
    LET r1 == << <<"Risk", rk.risk_level, rk.risk_score>> >>
        r2 == IF t.country # t.home_country
                  THEN Append(r1, <<"Geo mismatch relative to account profile.", "", 0>>) ELSE r1
        ratio == ev.amount_vs_baseline_ratio
        r3 == IF ratio # NoneNum /\ ratio >= 600
                  THEN Append(r2, <<"Amount significantly above account baseline (>=3x).", "", 0>>)
              ELSE r2
        r4 == IF Velocity(ev) >= 12
                  THEN Append(r3, <<"High velocity behavior consistent with burst activity.", "", 0>>)
              ELSE r3
        r5 == IF t.transaction_type \in {"P2P_SEND", "CASHOUT"} /\ t.channel = "card_not_present"
                  THEN Append(r4, <<"High-risk type combined with CNP channel increases fraud likelihood.", "", 0>>)
              ELSE r4
        top_reuse == ev.ip_or_device_reuse_accounts_top
        r6 == IF top_reuse # <<>> /\ top_reuse[1][2] >= 6
                  THEN Append(r5, <<"IP/device reuse pattern across multiple accounts is suspicious.", "", 0>>)
              ELSE r5
        r7 == IF t.transaction_status = "chargeback"
                  THEN Append(r6, <<"Chargeback observed (strong fraud confirmation signal).", "", 0>>)
              ELSE r6
    IN  r7

\* investigator_rationale with the burst statement at the velocity cap of 15
investigator_rationale_velocity15(t, rk, ev) ==
    IF t.country = Absent THEN RationaleKeyError
    ELSE
    LET r1 == << <<"Risk", rk.risk_level, rk.risk_score>> >>
        r2 == IF t.country # t.home_country
                  THEN Append(r1, <<"Geo mismatch relative to account profile.", "", 0>>) ELSE r1
        ratio == ev.amount_vs_baseline_ratio
        r3 == IF ratio # NoneNum /\ ratio >= 300
                  THEN Append(r2, <<"Amount significantly above account baseline (>=3x).", "", 0>>)
              ELSE r2
        r4 == IF Velocity(ev) >= 15
                  THEN Append(r3, <<"High velocity behavior consistent with burst activity.", "", 0>>)
              ELSE r3
        r5 == IF t.transaction_type \in {"P2P_SEND", "CASHOUT"} /\ t.channel = "card_not_present"
                  THEN Append(r4, <<"High-risk type combined with CNP channel increases fraud likelihood.", "", 0>>)
              ELSE r4
        top_reuse == ev.ip_or_device_reuse_accounts_top
        r6 == IF top_reuse # <<>> /\ top_reuse[1][2] >= 6
                  THEN Append(r5, <<"IP/device reuse pattern across multiple accounts is suspicious.", "", 0>>)
              ELSE r5
        r7 == IF t.transaction_status = "chargeback"
                  THEN Append(r6, <<"Chargeback observed (strong fraud confirmation signal).", "", 0>>)
              ELSE r6
    IN  r7

investigator_rationale(t, rk, ev) ==
    IF t.country = Absent THEN RationaleKeyError
    ELSE
    LET r1 == << <<"Risk", rk.risk_level, rk.risk_score>> >>
        r2 == IF t.country # t.home_country
                  THEN Append(r1, <<"Geo mismatch relative to account profile.", "", 0>>) ELSE r1
        ratio == ev.amount_vs_baseline_ratio
        r3 == IF ratio # NoneNum /\ ratio >= 300
                  THEN Append(r2, <<"Amount significantly above account baseline (>=3x).", "", 0>>)
              ELSE r2
        r4 == IF Velocity(ev) >= 12
                  THEN Append(r3, <<"High velocity behavior consistent with burst activity.", "", 0>>)
              ELSE r3
        r5 == IF t.transaction_type \in {"P2P_SEND", "CASHOUT"} /\ t.channel = "card_not_present"
                  THEN Append(r4, <<"High-risk type combined with CNP channel increases fraud likelihood.", "", 0>>)
              ELSE r4
        top_reuse == ev.ip_or_device_reuse_accounts_top
        r6 == IF top_reuse # <<>> /\ top_reuse[1][2] >= 6
                  THEN Append(r5, <<"IP/device reuse pattern across multiple accounts is suspicious.", "", 0>>)
              ELSE r5
        r7 == IF t.transaction_status = "chargeback"
                  THEN Append(r6, <<"Chargeback observed (strong fraud confirmation signal).", "", 0>>)
              ELSE r6
    IN  r7

----------------------------------------------------------------------------
(* Values of the variables no call has assigned *)

NoTxn == [txn_id |-> AbsentNum, ts |-> AbsentNum, account_id |-> Absent,
          customer_grade |-> Absent, device_id |-> Absent, ip_address |-> Absent,
          amount |-> AbsentNum, country |-> Absent, channel |-> Absent,
          transaction_type |-> Absent, transaction_status |-> Absent,
          home_country |-> Absent]
NoRisk == [exc |-> "unset", risk_score |-> 0, risk_level |-> "", reasons |-> <<>>]
NoEvidence == [velocity_proxy_15 |-> AbsentNum, amount_vs_baseline_ratio |-> NoneNum]
NoDec == [decision |-> "", recommended_action |-> ""]
NoCase == [case_id |-> 0]
NoResult == [txn_event |-> [type |-> "unset"], alert_event |-> [type |-> "unset"]]
NoBroadcast ==
    [pc |-> "off", start |-> {}, used |-> 0, visited |-> {}, cur |-> 0, dead |-> <<>>,
     removed |-> {}]

\* the database, the PDF directory and the pipeline at start-up
QuietStore ==
    /\ transactions = {}
    /\ cases = {}
    /\ pdf_files = {}
    /\ case = NoCase
    /\ result = NoResult
    /\ uuid_counter = 0
    /\ calls = <<>>
    /\ returned = {}
    /\ rationale = <<>>
    /\ broadcasts = <<>>
    /\ tx_window = <<>>
    /\ alerts_window = <<>>
    /\ flag_file = FALSE
    /\ seed_pc = "off"
    /\ seed_i = 0
    /\ seed_runs = <<>>
    /\ now = 1
    /\ clients = {}
    /\ bc = NoBroadcast

\* the same with no window fetched
Quiet ==
    /\ QuietStore
    /\ recent = <<>>
    /\ reuse = <<>>

----------------------------------------------------------------------------
(* score_risk as a function of one transaction record *)

ScoreTxns ==
    [txn_id : {1}, ts : {1}, account_id : {"a1"},
     customer_grade : {"A", "B", "C", "D", "Low Risk", Absent},
     device_id : {"d1"}, ip_address : {"ip1"},
     amount : {AbsentNum, 200, 201, 29999, 30000, 79999, 80000, 100000},
     country : {"ZW", "ZA", Absent},
     channel : {"card_present", "card_not_present", Absent},
     transaction_type : {"P2P_SEND", "CASHIN", "AIRTIME_RECHARGE", "DSTV_PAYMENT", Absent},
     transaction_status : {"approved", "declined", "chargeback", Absent},
     home_country : {"ZW", Absent}]

InitScore ==
    /\ Quiet
    /\ pc = "score_risk"
    /\ txn \in ScoreTxns
    /\ risk = NoRisk
    /\ evidence = NoEvidence
    /\ dec = NoDec

CallScoreRisk ==
    /\ pc = "score_risk"
    /\ risk' = score_risk(txn)
    /\ pc' = "score_risk_returned"
    /\ UNCHANGED <<now, wsVars, simVars, seedVars, rationale, transactions, cases, pdf_files, txn, recent, reuse, evidence,
                   dec, case, result, uuid_counter, calls, returned>>

NextScore == CallScoreRisk

SpecScore == InitScore /\ [][NextScore]_vars

----------------------------------------------------------------------------
(* decide as a function of (txn, risk, evidence) *)

DecideTxns ==
    [txn_id : {1}, ts : {1}, account_id : {"a1"}, customer_grade : {"B"},
     device_id : {"d1"}, ip_address : {"ip1"}, amount : {200},
     country : {"ZW", "ZA", Absent},
     channel : {"card_present", "card_not_present", Absent},
     transaction_type : {"P2P_SEND"},
     transaction_status : {"approved", "declined", "chargeback", Absent},
     home_country : {"ZW", Absent}]

DecideRisks ==
    {[exc |-> "", risk_score |-> 0, risk_level |-> "LOW", reasons |-> <<>>],
     [exc |-> "", risk_score |-> 35, risk_level |-> "MEDIUM", reasons |-> <<>>],
     [exc |-> "", risk_score |-> 60, risk_level |-> "HIGH", reasons |-> <<>>],
     [exc |-> "", risk_score |-> 85, risk_level |-> "CRITICAL", reasons |-> <<>>]}

DecideEvidence ==
    [velocity_proxy_15 : {AbsentNum, 0, 11, 12, 15},
     amount_vs_baseline_ratio : {NoneNum, 0, 299, 599, 600, 601}]

InitDecide ==
    /\ Quiet
    /\ pc = "decide"
    /\ txn \in DecideTxns
    /\ risk \in DecideRisks
    /\ evidence \in DecideEvidence
    /\ dec = NoDec

CallDecide ==
    /\ pc = "decide"
    /\ dec' = decide(txn, risk, evidence)
    /\ pc' = "decide_returned"
    /\ UNCHANGED <<now, wsVars, simVars, seedVars, rationale, transactions, cases, pdf_files, txn, risk, recent, reuse,
                   evidence, case, result, uuid_counter, calls, returned>>

NextDecide == CallDecide

SpecDecide == InitDecide /\ [][NextDecide]_vars

----------------------------------------------------------------------------
(* Properties of decide (SpecDecide) *)

DecideDone == pc = "decide_returned"

\* the predicates of the five rules, in the order of the rule list
RuleFires(i) ==
    CASE i = 1 -> risk.risk_level = "CRITICAL"
      [] i = 2 -> risk.risk_level = "HIGH"
      [] i = 3 -> txn.transaction_status = "chargeback"
      [] i = 4 -> /\ txn.channel = "card_not_present"
                  /\ txn.country # txn.home_country
                  /\ evidence.velocity_proxy_15 >= 12
      [] i = 5 -> /\ evidence.amount_vs_baseline_ratio # NoneNum
                  /\ evidence.amount_vs_baseline_ratio >= 600

RuleOutcome(i) ==
    CASE i = 1 -> [decision |-> "BLOCK", recommended_action |-> ActCritical]
      [] i = 2 -> [decision |-> "REVIEW", recommended_action |-> ActHigh]
      [] i = 3 -> [decision |-> "BLOCK", recommended_action |-> ActChargeback]
      [] i = 4 -> [decision |-> "BLOCK", recommended_action |-> ActVelocity]
      [] i = 5 -> [decision |-> "BLOCK", recommended_action |-> ActRatio]

Approve == [decision |-> "APPROVE", recommended_action |-> ActNone]

\* the accumulator after rules 1..k have been applied in sequence
RECURSIVE ApplyRules(_)
ApplyRules(k) ==
    IF k = 0 THEN Approve
    ELSE IF RuleFires(k) THEN RuleOutcome(k) ELSE ApplyRules(k - 1)

Fired == {i \in 1..5 : RuleFires(i)}
LastFired == CHOOSE i \in Fired : \A j \in Fired : j <= i

\* C2: decide returns BLOCK for every transaction whose status is
\* "chargeback", for every risk level and every evidence value.
C2_ChargebackBlocks ==
    (DecideDone /\ txn.transaction_status = "chargeback") => dec.decision = "BLOCK"

C2_Witness ==
    /\ DecideDone
    /\ txn.transaction_status = "chargeback"
    /\ risk.risk_level = "LOW"
    /\ evidence.amount_vs_baseline_ratio = NoneNum
    /\ evidence.velocity_proxy_15 = 0
    /\ dec.decision = "BLOCK"

\* C3: decide equals the five rules applied in sequence to an accumulator
\* that starts at (APPROVE, "No action"): the result is the outcome of the
\* highest-numbered rule that fires, and is (APPROVE, "No action") exactly
\* when no rule fires.
C3_SequentialOverride ==
    DecideDone =>
        /\ dec = ApplyRules(5)
        /\ dec = (IF Fired = {} THEN Approve ELSE RuleOutcome(LastFired))
        /\ (dec = Approve) <=> (Fired = {})

C3_Witness ==
    /\ DecideDone
    /\ Fired = {1, 3, 4}
    /\ dec = RuleOutcome(4)

\* C4: a ratio that is not null and >= 6.0 gives BLOCK with the ratio action
\* whatever the other inputs; a CRITICAL risk with no later rule firing gives
\* BLOCK with the CRITICAL action, so the two differ only in the action text.
C4_RatioFinalWord ==
    DecideDone =>
        /\ RuleFires(5) =>
              dec = [decision |-> "BLOCK", recommended_action |-> ActRatio]
        /\ (risk.risk_level = "CRITICAL" /\ ~RuleFires(3) /\ ~RuleFires(4) /\ ~RuleFires(5)) =>
              dec = [decision |-> "BLOCK", recommended_action |-> ActCritical]

C4_Witness ==
    /\ DecideDone
    /\ risk.risk_level = "CRITICAL"
    /\ txn.transaction_status = "chargeback"
    /\ RuleFires(4)
    /\ evidence.amount_vs_baseline_ratio = 600
    /\ dec.recommended_action = ActRatio

\* C5 as stated: every chargeback transaction gets the chargeback action,
\* for every risk level and every evidence value.
C5_ChargebackActionAlways ==
    (DecideDone /\ txn.transaction_status = "chargeback") =>
        dec.recommended_action = ActChargeback

\* C5 amended: a chargeback transaction gets the chargeback action for every
\* risk level whenever neither the CNP + geo mismatch + velocity rule nor the
\* ratio rule fires; when one of them fires the action is that rule's.
C5_ChargebackActionUnlessOverridden ==
    (DecideDone /\ txn.transaction_status = "chargeback") =>
        /\ dec.decision = "BLOCK"
        /\ (~RuleFires(4) /\ ~RuleFires(5)) <=> (dec.recommended_action = ActChargeback)

C5_Witness ==
    /\ DecideDone
    /\ txn.transaction_status = "chargeback"
    /\ risk.risk_level = "HIGH"
    /\ ~RuleFires(4)
    /\ ~RuleFires(5)
    /\ dec.recommended_action = ActChargeback

----------------------------------------------------------------------------
(* Properties of score_risk (SpecScore) *)

ScoreDone == pc = "score_risk_returned"

\* C9: score_risk returns a RiskAssessment for every record, also when any
\* of its fields is absent; an absent grade scores as B, an absent type as
\* MERCHPAY and an absent status as approved.
C9_ScoreRiskTotal ==
    ScoreDone =>
        /\ risk.exc = ""
        /\ risk = score_risk([txn EXCEPT
                     !.customer_grade = Get(txn.customer_grade, "B"),
                     !.transaction_type = Get(txn.transaction_type, "MERCHPAY"),
                     !.transaction_status = Get(txn.transaction_status, "approved")])

LevelRank(l) ==
    CASE l = "LOW" -> 0 [] l = "MEDIUM" -> 1 [] l = "HIGH" -> 2 [] l = "CRITICAL" -> 3

\* (score, level) of every record of ScoreTxns that score_risk accepts
AllScored ==
    {<<r.risk_score, r.risk_level>> :
        r \in {rr \in {score_risk(t) : t \in ScoreTxns} : rr.exc = ""}}

\* C10: the level is a step function of the score (LOW < 35 <= MEDIUM < 60
\* <= HIGH < 85 <= CRITICAL, no ceiling), and of two transactions the one
\* with the larger score never has the lower level.
C10_LevelStepFunction ==
    (ScoreDone /\ risk.exc = "") =>
        /\ (risk.risk_level = "LOW") <=> (risk.risk_score < 35)
        /\ (risk.risk_level = "MEDIUM") <=> (35 <= risk.risk_score /\ risk.risk_score < 60)
        /\ (risk.risk_level = "HIGH") <=> (60 <= risk.risk_score /\ risk.risk_score < 85)
        /\ (risk.risk_level = "CRITICAL") <=> (risk.risk_score >= 85)
        /\ \A o \in AllScored :
              o[1] > risk.risk_score => LevelRank(o[2]) >= LevelRank(risk.risk_level)

C10_Witness ==
    /\ ScoreDone
    /\ risk.risk_score = 85
    /\ risk.risk_level = "CRITICAL"

----------------------------------------------------------------------------
(* repo.py: the queries of process_txn over the two tables *)

NumTxnIds == 2
RecentLimit == 120
ReuseLimit == 200

\* a transactions table without the unique index on txn_id
UniqueViolation_off(t) == FALSE

\* unique=True on Transaction.txn_id: the commit of insert_txn raises
\* IntegrityError when a row with this txn_id exists
UniqueViolation(t) == \E r \in transactions : r.txn_id = t.txn_id

\* the row insert_txn adds (merchant, mcc and currency are copied and never read)
TransactionRow(t) == t

\* the dict the fetch functions build from a row: every column but home_country
RowDict(r) == [f \in (DOMAIN r) \ {"home_country"} |-> r[f]]

\* ORDER BY ts DESC: the orders the database may return the rows of S in
\* (rows of equal ts come in any order)
OrderByTsDesc(S) ==
    {s \in [1..Cardinality(S) -> S] :
        /\ \A i, j \in DOMAIN s : i < j => s[i].ts >= s[j].ts
        /\ \A i, j \in DOMAIN s : i # j => s[i] # s[j]}

Select(S, limit) ==
    {[i \in 1..Min(limit, Len(s)) |-> RowDict(s[i])] : s \in OrderByTsDesc(S)}

fetch_recent_account_txns(account_id, limit) ==
    Select({r \in transactions : r.account_id = account_id}, limit)

fetch_reuse_txns(ip, device, limit) ==
    Select({r \in transactions : r.ip_address = ip \/ r.device_id = device}, limit)

----------------------------------------------------------------------------
(* pipeline.py *)

\* datetime.isoformat(): a string made from the timestamp
isoformat(ts) == <<"iso", ts>>

txn_to_json(t) == [t EXCEPT !.ts = isoformat(t.ts)]

\* make_case_id: a fresh uuid4 prefix
make_case_id == uuid_counter + 1

CASE_PDF_DIR == "./case_files"
PdfPath(case_id) == <<CASE_PDF_DIR, case_id, ".pdf">>

\* json.dumps(evidence, default=str)
pack_evidence_json(ev) == <<"json", ev>>

\* agents_reporting.make_report_md: the fields the report renders
make_report_md(c) ==
    <<"md", c.case_id, c.txn.txn_id, c.decision, c.recommended_action,
      c.evidence.risk_level, c.evidence.risk_score, c.rationale>>

\* a gate that lets only CRITICAL through
Investigate_critical_only(rk) == rk.risk_level = "CRITICAL"

\* the case gate opening from MEDIUM up
Investigate_from_medium(rk) == rk.risk_level \in {"MEDIUM", "HIGH", "CRITICAL"}

\* the gate of process_txn
Investigate(rk) == rk.risk_level \in {"HIGH", "CRITICAL"}

\* the txn event (latency_ms, a time measurement, is left out)
TxnEvent(t, rk) == [type |-> "txn", txn |-> txn_to_json(t), risk |-> rk]
NoAlert == [type |-> "None"]

\* the row insert_case commits
CaseRow(c, pdf_path, report_md, evidence_json) ==
    [case_id |-> c.case_id,
     created_at |-> c.created_at,
     txn_id |-> c.txn.txn_id,
     account_id |-> c.txn.account_id,
     risk_score |-> c.evidence.risk_score,
     risk_level |-> c.evidence.risk_level,
     decision |-> c.decision,
     recommended_action |-> c.recommended_action,
     rationale |-> <<"joined", c.rationale>>,
     evidence_json |-> evidence_json,
     report_md |-> report_md,
     report_pdf_path |-> pdf_path]

PipelineTxns ==
    [txn_id : 1..NumTxnIds, ts : {1}, account_id : {"a1", "a2"},
     customer_grade : {"B"}, device_id : {"d1"}, ip_address : {"ip1"},
     amount : {200}, country : {"ZW", "ZA"}, channel : {"card_not_present"},
     transaction_type : {"P2P_SEND"},
     transaction_status : {"approved", "chargeback"},
     home_country : {"ZW"}]

Init ==
    /\ Quiet
    /\ pc = "idle"
    /\ txn = NoTxn
    /\ risk = NoRisk
    /\ evidence = NoEvidence
    /\ dec = NoDec

\* process_txn(t): insert_txn commits, score_risk runs; a LOW or MEDIUM
\* transaction returns at once.  insert_txn subscripts every column of txn,
\* so the records of PipelineTxns have every field.
InsertTxnCommits(t) ==
    /\ ~UniqueViolation(t)
    /\ txn' = t
    /\ transactions' = transactions \cup {TransactionRow(t)}
    /\ risk' = score_risk(t)
    /\ calls' = <<"insert_txn">>
    /\ IF Investigate(risk')
         THEN /\ pc' = "fetch_recent"
              /\ UNCHANGED <<result, returned>>
         ELSE /\ pc' = "returned"
              /\ result' = [txn_event |-> TxnEvent(t, risk'), alert_event |-> NoAlert]
              /\ returned' = returned \cup {<<t.txn_id, risk'.risk_level>>}

InsertTxnOk ==
    /\ pc = "idle"
    /\ \E t \in PipelineTxns : InsertTxnCommits(t)
    /\ UNCHANGED <<now, wsVars, simVars, seedVars, rationale, cases, pdf_files, recent, reuse, evidence, dec, case, uuid_counter>>

\* insert_txn raises: IntegrityError on a duplicate txn_id, or a storage error
InsertTxnRaises ==
    /\ pc = "idle"
    /\ \E t \in PipelineTxns : txn' = t
    /\ calls' = <<"insert_txn">>
    /\ pc' = "raised"
    /\ UNCHANGED <<now, wsVars, simVars, seedVars, rationale, transactions, cases, pdf_files, risk, recent, reuse, evidence,
                   dec, case, result, uuid_counter, returned>>

FetchRecentOk ==
    /\ pc = "fetch_recent"
    /\ recent' \in fetch_recent_account_txns(txn.account_id, RecentLimit)
    /\ calls' = Append(calls, "fetch_recent_account_txns")
    /\ pc' = "fetch_reuse"
    /\ UNCHANGED <<now, wsVars, simVars, seedVars, rationale, transactions, cases, pdf_files, txn, risk, reuse, evidence,
                   dec, case, result, uuid_counter, returned>>

FetchRecentRaises ==
    /\ pc = "fetch_recent"
    /\ calls' = Append(calls, "fetch_recent_account_txns")
    /\ pc' = "raised"
    /\ UNCHANGED <<now, wsVars, simVars, seedVars, rationale, transactions, cases, pdf_files, txn, risk, recent, reuse,
                   evidence, dec, case, result, uuid_counter, returned>>

\* fetch_reuse_txns returns; evidence, rationale, decision and the case dict
\* are built
FetchReuseOk ==
    /\ pc = "fetch_reuse"
    /\ reuse' \in fetch_reuse_txns(txn.ip_address, txn.device_id, ReuseLimit)
    /\ calls' = Append(calls, "fetch_reuse_txns")
    /\ LET txn_json == txn_to_json(txn)
           ev == build_evidence(txn_json, risk, recent, reuse')
           d == decide(txn_json, risk, ev)
       IN  /\ evidence' = ev
           /\ dec' = d
           /\ case' = [case_id |-> make_case_id,
                       created_at |-> now,
                       txn |-> txn_json,
                       decision |-> d.decision,
                       recommended_action |-> d.recommended_action,
                       evidence |-> ev,
                       rationale |-> investigator_rationale(txn_json, risk, ev)]
           /\ rationale' = investigator_rationale(txn_json, risk, ev)
    /\ uuid_counter' = uuid_counter + 1
    /\ pc' = "write_pdf"
    /\ UNCHANGED <<now, wsVars, simVars, seedVars, transactions, cases, pdf_files, txn, risk, recent, result, returned>>

FetchReuseRaises ==
    /\ pc = "fetch_reuse"
    /\ calls' = Append(calls, "fetch_reuse_txns")
    /\ pc' = "raised"
    /\ UNCHANGED <<now, wsVars, simVars, seedVars, rationale, transactions, cases, pdf_files, txn, risk, recent, reuse,
                   evidence, dec, case, result, uuid_counter, returned>>

\* write_pdf saves the file
WritePdfOk ==
    /\ pc = "write_pdf"
    /\ pdf_files' = pdf_files \cup {PdfPath(case.case_id)}
    /\ calls' = Append(calls, "write_pdf")
    /\ pc' = "insert_case"
    /\ UNCHANGED <<now, wsVars, simVars, seedVars, rationale, transactions, cases, txn, risk, recent, reuse, evidence, dec,
                   case, result, uuid_counter, returned>>

\* write_pdf raises before the file is saved
WritePdfRaises ==
    /\ pc = "write_pdf"
    /\ calls' = Append(calls, "write_pdf")
    /\ pc' = "raised"
    /\ UNCHANGED <<now, wsVars, simVars, seedVars, rationale, transactions, cases, pdf_files, txn, risk, recent, reuse,
                   evidence, dec, case, result, uuid_counter, returned>>

\* insert_case commits the row and process_txn returns the two events
InsertCaseOk ==
    /\ pc = "insert_case"
    /\ LET pdf_path == PdfPath(case.case_id)
           report_md == make_report_md(case)
       IN  /\ cases' = cases \cup
                 {CaseRow(case, pdf_path, report_md, pack_evidence_json(case.evidence))}
           /\ result' = [txn_event |-> TxnEvent(txn, risk),
                         alert_event |-> [type |-> "alert",
                                          case_id |-> case.case_id,
                                          decision |-> case.decision,
                                          risk_level |-> risk.risk_level,
                                          risk_score |-> risk.risk_score,
                                          report_md |-> report_md,
                                          pdf_path |-> pdf_path]]
    /\ calls' = Append(calls, "insert_case")
    /\ returned' = returned \cup {<<txn.txn_id, risk.risk_level>>}
    /\ pc' = "returned"
    /\ UNCHANGED <<now, wsVars, simVars, seedVars, rationale, transactions, pdf_files, txn, risk, recent, reuse, evidence,
                   dec, case, uuid_counter>>

InsertCaseRaises ==
    /\ pc = "insert_case"
    /\ calls' = Append(calls, "insert_case")
    /\ pc' = "raised"
    /\ UNCHANGED <<now, wsVars, simVars, seedVars, rationale, transactions, cases, pdf_files, txn, risk, recent, reuse,
                   evidence, dec, case, result, uuid_counter, returned>>

\* the caller takes the result or the exception; the locals of the call die
CallEnds ==
    /\ pc \in {"returned", "raised"}
    /\ pc' = "idle"
    /\ txn' = NoTxn
    /\ risk' = NoRisk
    /\ recent' = <<>>
    /\ reuse' = <<>>
    /\ evidence' = NoEvidence
    /\ dec' = NoDec
    /\ case' = NoCase
    /\ rationale' = <<>>
    /\ result' = NoResult
    /\ calls' = <<>>
    /\ UNCHANGED <<now, wsVars, simVars, seedVars, transactions, cases, pdf_files, uuid_counter, returned>>

Next ==
    \/ InsertTxnOk
    \/ InsertTxnRaises
    \/ FetchRecentOk
    \/ FetchRecentRaises
    \/ FetchReuseOk
    \/ FetchReuseRaises
    \/ WritePdfOk
    \/ WritePdfRaises
    \/ InsertCaseOk
    \/ InsertCaseRaises
    \/ CallEnds

Spec == Init /\ [][Next]_vars

----------------------------------------------------------------------------
(* Properties of process_txn (Spec) *)

HighLevels == {"HIGH", "CRITICAL"}
CasesOf(id) == {c \in cases : c.txn_id = id}
AllCollaborators ==
    <<"insert_txn", "fetch_recent_account_txns", "fetch_reuse_txns", "write_pdf", "insert_case">>

\* C1: a process_txn call that returns has persisted a case and returns an
\* alert event exactly when the risk level is HIGH or CRITICAL; for LOW and
\* MEDIUM it has called insert_txn only (no window fetch, no write_pdf, no
\* insert_case) and returns alert_event = None.
C1_CaseGate ==
    /\ \A c \in cases : c.risk_level \in HighLevels
    /\ pc = "returned" =>
          /\ (risk.risk_level \in HighLevels) <=> (result.alert_event.type = "alert")
          /\ (risk.risk_level \in HighLevels) <=> (CasesOf(txn.txn_id) # {})
          /\ (risk.risk_level \in HighLevels) =>
                /\ calls = AllCollaborators
                /\ \E c \in cases : c.case_id = result.alert_event.case_id
          /\ (risk.risk_level \in {"LOW", "MEDIUM"}) =>
                /\ calls = <<"insert_txn">>
                /\ result.alert_event = NoAlert
                /\ case = NoCase

C1_Witness ==
    /\ pc = "returned"
    /\ risk.risk_level = "HIGH"
    /\ result.alert_event.type = "alert"
    /\ CasesOf(txn.txn_id) # {}
    /\ \E id \in 1..NumTxnIds :
          /\ <<id, "MEDIUM">> \in returned
          /\ CasesOf(id) = {}

\* C6: when a collaborator of process_txn has failed, nothing of a case is
\* left behind: every case PDF has its committed case row and every case row
\* has its PDF.
C6_AllOrNothing ==
    pc = "raised" =>
        /\ \A f \in pdf_files : \E c \in cases : c.report_pdf_path = f
        /\ \A c \in cases : c.report_pdf_path \in pdf_files

\* C7: after any sequence of process_txn calls a txn_id has exactly one case
\* row if a call for it returned with level HIGH or CRITICAL and none
\* otherwise, and a committed case row stays as it is.
C7_OneCasePerTxn ==
    /\ [](\A id \in 1..NumTxnIds :
            Cardinality(CasesOf(id)) =
                IF \E l \in HighLevels : <<id, l>> \in returned THEN 1 ELSE 0)
    /\ [][\A c \in cases : c \in cases']_vars

C7_Witness ==
    /\ pc = "raised"
    /\ calls = <<"insert_txn">>
    /\ Cardinality(CasesOf(txn.txn_id)) = 1
    /\ \E id \in 1..NumTxnIds :
          /\ \E r \in transactions : r.txn_id = id /\ score_risk(r).risk_level = "CRITICAL"
          /\ CasesOf(id) = {}

\* C8: the recent-account window handed to build_evidence holds prior
\* transactions only, never the transaction under investigation.
C8_WindowExcludesCurrent ==
    pc \in {"fetch_reuse", "write_pdf", "insert_case"} =>
        \A i \in DOMAIN recent : recent[i].txn_id # txn.txn_id

----------------------------------------------------------------------------
(* score_risk followed by decide on the scored transaction *)

AssessTxns ==
    [txn_id : {1}, ts : {1}, account_id : {"a1"}, customer_grade : {"A", "B"},
     device_id : {"d1"}, ip_address : {"ip1"}, amount : {200, 90000},
     country : {"ZW", "ZA", "NG"},
     channel : {"card_present", "card_not_present"},
     transaction_type : {"P2P_SEND", "CASHIN"},
     transaction_status : {"approved", "chargeback"},
     home_country : {"ZW"}]

InitAssess ==
    /\ Quiet
    /\ pc = "score_risk"
    /\ txn \in AssessTxns
    /\ risk = NoRisk
    /\ evidence \in DecideEvidence
    /\ dec = NoDec

\* decide applied to the risk that score_risk returned
DecideScored ==
    /\ pc = "score_risk_returned"
    /\ risk.exc = ""
    /\ dec' = decide(txn, risk, evidence)
    /\ pc' = "decide_returned"
    /\ UNCHANGED <<now, wsVars, simVars, seedVars, rationale, transactions, cases, pdf_files, txn, risk, recent,
                   reuse, evidence, case, result, uuid_counter, calls, returned>>

NextAssess == CallScoreRisk \/ DecideScored

SpecAssess == InitAssess /\ [][NextAssess]_vars

----------------------------------------------------------------------------
(* Properties of the worked example (SpecAssess) *)

ExampleTxn ==
    /\ txn.amount = 90000
    /\ txn.channel = "card_not_present"
    /\ txn.country # txn.home_country
    /\ txn.transaction_type = "P2P_SEND"
    /\ txn.transaction_status = "approved"
    /\ txn.customer_grade = "B"

ExampleEvidence ==
    /\ evidence.amount_vs_baseline_ratio = NoneNum \/ evidence.amount_vs_baseline_ratio < 600
    /\ Velocity(evidence) < 12

\* C11: the transaction amount 900, card_not_present, country other than
\* home_country, P2P_SEND, approved, grade B is scored 79 and HIGH, and with
\* a ratio below 6 (or null) and a velocity proxy below 12 decide returns
\* REVIEW with the step-up action.
C11_ExampleReview ==
    ExampleTxn =>
        /\ pc \in {"score_risk_returned", "decide_returned"} =>
              /\ risk.exc = ""
              /\ risk.risk_score = 79
              /\ risk.risk_level = "HIGH"
        /\ (pc = "decide_returned" /\ ExampleEvidence) =>
              /\ dec.decision = "REVIEW"
              /\ dec.recommended_action = ActHigh

C11_Witness ==
    /\ ExampleTxn
    /\ ExampleEvidence
    /\ pc = "decide_returned"
    /\ evidence.amount_vs_baseline_ratio = 599
    /\ evidence.velocity_proxy_15 = 11
    /\ dec.decision = "REVIEW"

----------------------------------------------------------------------------
(* Amount tiering of score_risk (SpecScore) *)

AmountReasons == {<<"High amount >= 800", "">>, <<"Amount >= 300", "">>}

IsAmountReason(r) == r \in AmountReasons

ProbeFired == \E i \in DOMAIN risk.reasons : risk.reasons[i][1] = "Probe-like small airtime recharge"

\* the score of the same transaction with an amount below both tiers and
\* above the probe limit
ScoreWithoutAmount == score_risk([txn EXCEPT !.amount = 201]).risk_score

\* C12: the amount adds exactly 25 and one reason from 800 up, exactly 12
\* and one reason from 300 to below 800, and nothing below 300; the two
\* tiers never add up.
C12_AmountTierNotCumulative ==
    (ScoreDone /\ risk.exc = "") =>
        LET tier == SelectSeq(risk.reasons, IsAmountReason)
            delta == risk.risk_score - ScoreWithoutAmount
        IN  /\ txn.amount >= 80000 =>
                  delta = 25 /\ tier = <<<<"High amount >= 800", "">>>>
            /\ (txn.amount >= 30000 /\ txn.amount < 80000) =>
                  delta = 12 /\ tier = <<<<"Amount >= 300", "">>>>
            /\ txn.amount < 30000 =>
                  tier = <<>> /\ delta = (IF ProbeFired THEN 18 ELSE 0)
            /\ delta # 37

C12_Witness ==
    /\ ScoreDone
    /\ txn.amount = 100000
    /\ risk.exc = ""
    /\ risk.risk_score - ScoreWithoutAmount = 25
    /\ Len(SelectSeq(risk.reasons, IsAmountReason)) = 1

----------------------------------------------------------------------------
(* build_evidence, investigator_rationale and decide as process_txn chains
   them (pipeline.py lines 38-41), on windows given as inputs *)

MaxTail == 2
MaxExtra == 2

Rep(x, n) == [i \in 1..n |-> x]

\* a row of the recent-account window: the keys build_evidence reads
WindowRow(amt, st, ty) ==
    [account_id |-> "a1", amount |-> amt, transaction_status |-> st, transaction_type |-> ty]

HeadLens == {0, 1, 12, 80}

\* recent-account windows: a run of equal rows, then a shorter run of other rows
RecentWindows ==
    {Rep(WindowRow(a, "approved", "P2P_SEND"), k) \o Rep(WindowRow(b, "chargeback", "CASHOUT"), m) :
        a \in {0, 1, 10000}, b \in {0, 70000}, k \in HeadLens, m \in 0..MaxTail}

ReuseRow(acct) ==
    [account_id |-> acct, amount |-> 100, transaction_status |-> "approved",
     transaction_type |-> "P2P_SEND"]

RECURSIVE SeqsUpTo(_, _)
SeqsUpTo(S, n) ==
    IF n = 0 THEN {<<>>}
    ELSE LET shorter == SeqsUpTo(S, n - 1)
         IN  shorter \cup {Append(s, x) : s \in shorter, x \in S}

\* account ids of reuse windows: up to seven accounts in some order, with
\* a little before and after
ReuseAccounts ==
    {pre \o base \o post :
        pre \in {<<>>, <<"a7">>, <<"a3">>},
        base \in {<<>>,
                  <<"a1", "a2", "a3", "a4", "a5">>,
                  <<"a1", "a2", "a3", "a4", "a5", "a6", "a7">>,
                  <<"a7", "a6", "a5", "a4", "a3", "a2", "a1">>,
                  Rep("a2", 6) \o <<"a1">>},
        post \in SeqsUpTo({"a1", "a4", "a7"}, MaxExtra)}

ReuseWindows == {[i \in DOMAIN s |-> ReuseRow(s[i])] : s \in ReuseAccounts}

EvidenceTxns ==
    [txn_id : {1}, ts : {1}, account_id : {"a1"}, customer_grade : {"B"},
     device_id : {"d1"}, ip_address : {"ip1"}, amount : {0, 10000, 60000},
     country : {"ZA"}, channel : {"card_not_present"},
     transaction_type : {"P2P_SEND"}, transaction_status : {"approved"},
     home_country : {"ZW"}]

InitEvidence ==
    /\ QuietStore
    /\ pc = "build_evidence"
    /\ txn \in EvidenceTxns
    /\ risk = score_risk(txn)
    /\ recent \in RecentWindows
    /\ reuse \in ReuseWindows
    /\ evidence = NoEvidence
    /\ dec = NoDec

CallBuildEvidence ==
    /\ pc = "build_evidence"
    /\ evidence' = build_evidence(txn, risk, recent, reuse)
    /\ pc' = IF evidence' = EvidenceKeyError THEN "raised" ELSE "investigator_rationale"
    /\ UNCHANGED <<now, wsVars, simVars, seedVars, rationale, transactions, cases, pdf_files, txn, risk, recent,
                   reuse, dec, case, result, uuid_counter, calls, returned>>

CallRationale ==
    /\ pc = "investigator_rationale"
    /\ rationale' = investigator_rationale(txn, risk, evidence)
    /\ pc' = IF rationale' = RationaleKeyError THEN "raised" ELSE "decide"
    /\ UNCHANGED <<now, wsVars, simVars, seedVars, transactions, cases, pdf_files, txn, risk, recent, reuse,
                   evidence, dec, case, result, uuid_counter, calls, returned>>

NextEvidence == CallBuildEvidence \/ CallRationale \/ CallDecide

SpecEvidence == InitEvidence /\ [][NextEvidence]_vars

----------------------------------------------------------------------------
(* Properties of build_evidence (SpecEvidence) *)

EvidenceBuilt == pc \in {"investigator_rationale", "decide", "decide_returned"}

Abs(x) == IF x < 0 THEN -x ELSE x

\* the amounts of the (at most 80) first rows of the recent-account window
First80Amounts == [i \in 1..(IF Len(recent) < 80 THEN Len(recent) ELSE 80) |-> recent[i].amount]

RatioStatement == <<"Amount significantly above account baseline (>=3x).", "", 0>>

Says(stmt) == \E i \in DOMAIN rationale : rationale[i] = stmt

\* C13: build_evidence returns for every window; the average is the mean of
\* the at most 80 first amounts to two decimals; the ratio is null exactly
\* when that average is 0, in particular for an empty or all-zero sample,
\* and otherwise the current amount over the average to two decimals; with
\* a null ratio decide and investigator_rationale answer as for ratio 0.
C13_RatioNullOnZeroAverage ==
    EvidenceBuilt =>
        LET n == Len(First80Amounts)
            avg == evidence.acct_avg_amount_80
            ratio == evidence.amount_vs_baseline_ratio
        IN  /\ evidence # EvidenceKeyError
            /\ n = 0 => avg = 0
            /\ n > 0 => 2 * Abs(avg * n - SumSeq(First80Amounts)) <= n
            /\ (\A i \in DOMAIN First80Amounts : First80Amounts[i] = 0) => ratio = NoneNum
            /\ (ratio = NoneNum) <=> (avg = 0)
            /\ avg > 0 => ratio >= 0 /\ 2 * Abs(ratio * avg - 100 * txn.amount) <= avg
            /\ (pc = "decide_returned" /\ ratio = NoneNum) =>
                  /\ dec = decide(txn, risk, [evidence EXCEPT !.amount_vs_baseline_ratio = 0])
                  /\ dec.recommended_action # ActRatio
                  /\ rationale = investigator_rationale(txn, risk,
                                    [evidence EXCEPT !.amount_vs_baseline_ratio = 0])
                  /\ ~Says(RatioStatement)

\* an all-zero sample of 80 rows followed by rows of 700 each
C13_Witness ==
    /\ pc = "decide_returned"
    /\ Len(recent) = 82
    /\ recent[80].amount = 0
    /\ recent[81].amount = 70000
    /\ txn.amount = 60000
    /\ evidence.acct_avg_amount_80 = 0
    /\ evidence.amount_vs_baseline_ratio = NoneNum
    /\ dec.decision = "BLOCK"

\* a sample with a positive average, the ratio reaching 6.0
C13_WitnessRatio ==
    /\ pc = "decide_returned"
    /\ evidence.acct_avg_amount_80 = 10000
    /\ evidence.amount_vs_baseline_ratio = 600
    /\ dec.recommended_action = ActRatio

\* what build_evidence derives from the windows when both are empty
EmptyWindowFields(ev) ==
    /\ ev # EvidenceKeyError
    /\ ev.recent_account_txn_count = 0
    /\ ev.reuse_sample_count = 0
    /\ ev.acct_avg_amount_80 = 0
    /\ ev.acct_max_amount_80 = 0
    /\ ev.velocity_proxy_15 = 0
    /\ ev.amount_vs_baseline_ratio = NoneNum
    /\ DOMAIN ev.acct_status_counts = {}
    /\ DOMAIN ev.acct_type_counts = {}
    /\ Len(ev.ip_or_device_reuse_accounts_top) = 0

\* C14: with an empty recent-account window and an empty reuse window
\* build_evidence returns an Evidence with average 0, maximum 0, velocity
\* proxy 0, null ratio, empty distributions and an empty top-reuse list,
\* whatever the transaction and the risk.
C14_EmptyWindows ==
    (EvidenceBuilt /\ recent = <<>> /\ reuse = <<>>) =>
        /\ EmptyWindowFields(evidence)
        /\ evidence.risk_score = risk.risk_score
        /\ evidence.risk_level = risk.risk_level
        /\ evidence.risk_reasons = risk.reasons
        /\ \A rk \in DecideRisks :
              LET ev == build_evidence(txn, rk, recent, reuse)
              IN  EmptyWindowFields(ev) /\ ev.risk_level = rk.risk_level

C14_Witness ==
    /\ pc = "decide_returned"
    /\ recent = <<>>
    /\ reuse = <<>>
    /\ txn.amount = 60000
    /\ evidence.velocity_proxy_15 = 0
    /\ evidence.amount_vs_baseline_ratio = NoneNum
    /\ dec.decision = "REVIEW"

\* number of reuse-window rows of account a
ReuseCount(a) == Cardinality({i \in DOMAIN reuse : reuse[i].account_id = a})

\* position of the first reuse-window row of account a
FirstSeen(a) ==
    CHOOSE i \in DOMAIN reuse :
        reuse[i].account_id = a /\ \A j \in 1..(i - 1) : reuse[j].account_id # a

\* account a ranks ahead of account b: more rows, or as many and seen first
Ahead(a, b) ==
    \/ ReuseCount(a) > ReuseCount(b)
    \/ ReuseCount(a) = ReuseCount(b) /\ FirstSeen(a) < FirstSeen(b)

\* C15: the top-reuse list holds at most 6 (account_id, count) pairs, one
\* per account, each count the number of reuse-window rows of the account,
\* counts non-increasing, equal counts in order of first occurrence, and
\* every account left out ranks behind every account listed.
C15_TopReuseRanking ==
    EvidenceBuilt =>
        LET top == evidence.ip_or_device_reuse_accounts_top
            accounts == {reuse[i].account_id : i \in DOMAIN reuse}
            listed == {top[i][1] : i \in DOMAIN top}
        IN  /\ Len(top) = (IF Cardinality(accounts) < 6 THEN Cardinality(accounts) ELSE 6)
            /\ listed \subseteq accounts
            /\ Cardinality(listed) = Len(top)
            /\ \A i \in DOMAIN top : top[i][2] = ReuseCount(top[i][1])
            /\ \A i, j \in DOMAIN top : i < j => Ahead(top[i][1], top[j][1])
            /\ \A a \in accounts \ listed : \A b \in listed : Ahead(b, a)

\* seven accounts, the one seen last with two rows and six seen once
\* each: the sixth place goes to the earliest of the remaining ties
C15_Witness ==
    /\ EvidenceBuilt
    /\ Cardinality({reuse[i].account_id : i \in DOMAIN reuse}) = 7
    /\ Len(reuse) = 8
    /\ reuse[1].account_id = "a1"
    /\ reuse[8].account_id = "a7"
    /\ evidence.ip_or_device_reuse_accounts_top[1] = <<"a7", 2>>
    /\ evidence.ip_or_device_reuse_accounts_top[2] = <<"a1", 1>>
    /\ evidence.ip_or_device_reuse_accounts_top[6] = <<"a5", 1>>

----------------------------------------------------------------------------
(* investigator_rationale and decide on the same (txn, risk, evidence) *)

RationaleTxns ==
    [txn_id : {1}, ts : {1}, account_id : {"a1"}, customer_grade : {"B"},
     device_id : {"d1"}, ip_address : {"ip1"}, amount : {200},
     country : {"ZW", "ZA"},
     channel : {"card_present", "card_not_present", Absent},
     transaction_type : {"P2P_SEND", "CASHOUT", "AIRTIME_RECHARGE", Absent},
     transaction_status : {"approved", "chargeback", Absent},
     home_country : {"ZW", Absent}]

RationaleEvidence ==
    [velocity_proxy_15 : {AbsentNum, 0, 11, 12},
     amount_vs_baseline_ratio : {NoneNum, 299, 300, 599, 600},
     ip_or_device_reuse_accounts_top :
         {<<>>, << <<"a1", 5>> >>, << <<"a1", 6>>, <<"a2", 6>> >>, << <<"a2", 7>>, <<"a1", 1>> >>}]

InitRationale ==
    /\ Quiet
    /\ pc = "investigator_rationale"
    /\ txn \in RationaleTxns
    /\ risk \in DecideRisks
    /\ evidence \in RationaleEvidence
    /\ dec = NoDec

NextRationale == CallRationale \/ CallDecide

SpecRationale == InitRationale /\ [][NextRationale]_vars

----------------------------------------------------------------------------
(* Properties of investigator_rationale (SpecRationale) *)

RationaleDone == pc \in {"decide", "decide_returned"}

GeoStatement == <<"Geo mismatch relative to account profile.", "", 0>>
BurstStatement == <<"High velocity behavior consistent with burst activity.", "", 0>>
TypeStatement == <<"High-risk type combined with CNP channel increases fraud likelihood.", "", 0>>
ReuseStatement == <<"IP/device reuse pattern across multiple accounts is suspicious.", "", 0>>
ChargebackStatement == <<"Chargeback observed (strong fraud confirmation signal).", "", 0>>

\* the conditional statements in their fixed order (statements 2 to 7)
Statements ==
    <<GeoStatement, RatioStatement, BurstStatement, TypeStatement, ReuseStatement,
      ChargebackStatement>>

StatementHolds(k) ==
    CASE k = 1 -> txn.country # txn.home_country
      [] k = 2 -> evidence.amount_vs_baseline_ratio # NoneNum
                  /\ evidence.amount_vs_baseline_ratio >= 300
      [] k = 3 -> evidence.velocity_proxy_15 # AbsentNum /\ evidence.velocity_proxy_15 >= 12
      [] k = 4 -> txn.transaction_type \in {"P2P_SEND", "CASHOUT"}
                  /\ txn.channel = "card_not_present"
      [] k = 5 -> evidence.ip_or_device_reuse_accounts_top # <<>>
                  /\ evidence.ip_or_device_reuse_accounts_top[1][2] >= 6
      [] k = 6 -> txn.transaction_status = "chargeback"

StatementIndex(stmt) == CHOOSE k \in DOMAIN Statements : Statements[k] = stmt

\* C16: the rationale starts with the risk statement, every later line is
\* one of the six conditional statements, each present exactly when its
\* condition holds, none twice, in the fixed order; a second run on the
\* same input returns the same list.
C16_RationaleFixedOrder ==
    RationaleDone =>
        /\ Len(rationale) >= 1
        /\ rationale[1] = <<"Risk", risk.risk_level, risk.risk_score>>
        /\ \A i \in 2..Len(rationale) : \E k \in DOMAIN Statements : rationale[i] = Statements[k]
        /\ \A k \in DOMAIN Statements : Says(Statements[k]) <=> StatementHolds(k)
        /\ \A i, j \in DOMAIN rationale : i # j => rationale[i] # rationale[j]
        /\ \A i, j \in 2..Len(rationale) :
              i < j => StatementIndex(rationale[i]) < StatementIndex(rationale[j])
        /\ rationale = investigator_rationale(txn, risk, evidence)

\* all seven statements
C16_Witness ==
    /\ RationaleDone
    /\ Len(rationale) = 7
    /\ rationale[2] = GeoStatement
    /\ rationale[7] = ChargebackStatement
    /\ evidence.amount_vs_baseline_ratio = 300

\* C17: every escalation rule of decide that fires has its statement in the
\* rationale (chargeback: the chargeback statement; CNP + geo mismatch +
\* velocity: the geo and the burst statement; ratio >= 6.0: the baseline
\* statement), and the first line names the level decide branched on.
C17_RationaleMatchesDecision ==
    DecideDone =>
        /\ rationale[1][2] = risk.risk_level
        /\ (risk.risk_level = "CRITICAL") => dec.decision = "BLOCK"
        /\ (risk.risk_level \notin {"CRITICAL", "HIGH"} /\ dec.decision # "APPROVE") =>
              \E k \in DOMAIN Statements : Says(Statements[k])
        /\ (RuleFires(3) \/ dec.recommended_action = ActChargeback) => Says(ChargebackStatement)
        /\ (RuleFires(4) \/ dec.recommended_action = ActVelocity) =>
              Says(GeoStatement) /\ Says(BurstStatement)
        /\ (RuleFires(5) \/ dec.recommended_action = ActRatio) => Says(RatioStatement)

\* a LOW-risk transaction blocked by the velocity rule
C17_Witness ==
    /\ DecideDone
    /\ risk.risk_level = "LOW"
    /\ dec.recommended_action = ActVelocity
    /\ evidence.velocity_proxy_15 = 12
    /\ Says(GeoStatement)
    /\ Says(BurstStatement)
    /\ ~Says(RatioStatement)

----------------------------------------------------------------------------
(* main.py: sim_loop, one stream transaction per iteration *)

WindowMaxLen == 200

\* deque(maxlen=WindowMaxLen).append
DequeAppend(d, x) == IF Len(d) < WindowMaxLen THEN Append(d, x) ELSE Append(Tail(d), x)

\* stream_transactions yields a transaction with a new txn_id
StreamTxns ==
    IF Cardinality(transactions) >= NumTxnIds THEN {}
    ELSE [txn_id : {Cardinality(transactions) + 1}, ts : {1}, account_id : {"a1"},
          customer_grade : {"B"}, device_id : {"d1"}, ip_address : {"ip1"},
          amount : {200}, country : {"ZW", "ZA"}, channel : {"card_not_present"},
          transaction_type : {"P2P_SEND"},
          transaction_status : {"approved", "declined", "chargeback"},
          home_country : {"ZW"}]

\* result["alert_event"]["pdf_url"] = ...
WithPdfUrl(alert) ==
    [k \in (DOMAIN alert) \cup {"pdf_url"} |->
        IF k = "pdf_url" THEN <<"/api/cases/", alert.case_id, "/pdf?download=1">> ELSE alert[k]]

\* sim_loop with the alert event broadcast before the txn event
SimPayloads_alert_first(res) ==
    IF res.alert_event.type = "alert"
        THEN <<WithPdfUrl(res.alert_event), res.txn_event>>
        ELSE <<res.txn_event>>

\* the payloads sim_loop hands to broadcast for one result, in order
SimPayloads(res) ==
    IF res.alert_event.type = "alert"
        THEN <<res.txn_event, WithPdfUrl(res.alert_event)>>
        ELSE <<res.txn_event>>

\* how a broadcast call ends: no client connected, every client tried, or
\* the clients set changed size during the iteration (RuntimeError)
BroadcastOutcomes == {"no_clients", "sent", "raised"}

\* result = await process_txn(txn): insert_txn commits, score_risk runs
SimInsertTxnOk ==
    /\ pc = "idle"
    /\ \E t \in StreamTxns : InsertTxnCommits(t)
    /\ UNCHANGED <<now, wsVars, simVars, seedVars, rationale, cases, pdf_files, recent, reuse, evidence, dec,
                   case, uuid_counter>>

\* insert_txn raises a storage error
SimInsertTxnRaises ==
    /\ pc = "idle"
    /\ \E t \in StreamTxns : txn' = t
    /\ calls' = <<"insert_txn">>
    /\ pc' = "raised"
    /\ UNCHANGED <<now, wsVars, simVars, seedVars, rationale, transactions, cases, pdf_files, risk, recent,
                   reuse, evidence, dec, case, result, uuid_counter, returned>>

\* process_txn returned: tx_window.append(1), broadcast(result["txn_event"])
SimBroadcastTxn ==
    /\ pc = "returned"
    /\ tx_window' = DequeAppend(tx_window, 1)
    /\ \E o \in BroadcastOutcomes :
        /\ broadcasts' = Append(broadcasts, [payload |-> SimPayloads(result)[1], outcome |-> o])
        /\ pc' = IF o = "raised" THEN "sim_raised"
                 ELSE IF Len(SimPayloads(result)) > 1 THEN "sim_alert" ELSE "sim_done"
    /\ UNCHANGED <<now, wsVars, alerts_window, seedVars, rationale, transactions, cases, pdf_files, txn, risk,
                   recent, reuse, evidence, dec, case, result, uuid_counter, calls, returned>>

\* alerts_window.append(1), pdf_url, broadcast(result["alert_event"])
SimBroadcastAlert ==
    /\ pc = "sim_alert"
    /\ alerts_window' = DequeAppend(alerts_window, 1)
    /\ \E o \in BroadcastOutcomes :
        /\ broadcasts' = Append(broadcasts, [payload |-> SimPayloads(result)[2], outcome |-> o])
        /\ pc' = IF o = "raised" THEN "sim_raised" ELSE "sim_done"
    /\ UNCHANGED <<now, wsVars, tx_window, seedVars, rationale, transactions, cases, pdf_files, txn, risk,
                   recent, reuse, evidence, dec, case, result, uuid_counter, calls, returned>>

\* the iteration ends, through the except clause if anything raised
SimIterEnds ==
    /\ pc \in {"sim_done", "sim_raised", "raised"}
    /\ pc' = "idle"
    /\ txn' = NoTxn
    /\ risk' = NoRisk
    /\ recent' = <<>>
    /\ reuse' = <<>>
    /\ evidence' = NoEvidence
    /\ dec' = NoDec
    /\ case' = NoCase
    /\ rationale' = <<>>
    /\ result' = NoResult
    /\ calls' = <<>>
    /\ broadcasts' = <<>>
    /\ UNCHANGED <<now, wsVars, tx_window, alerts_window, seedVars, transactions, cases, pdf_files,
                   uuid_counter, returned>>

NextSim ==
    \/ SimInsertTxnOk
    \/ SimInsertTxnRaises
    \/ FetchRecentOk
    \/ FetchRecentRaises
    \/ FetchReuseOk
    \/ FetchReuseRaises
    \/ WritePdfOk
    \/ WritePdfRaises
    \/ InsertCaseOk
    \/ InsertCaseRaises
    \/ SimBroadcastTxn
    \/ SimBroadcastAlert
    \/ SimIterEnds

SpecSim == Init /\ [][NextSim]_vars

----------------------------------------------------------------------------
(* Properties of sim_loop (SpecSim) *)

\* process_txn has returned and sim_loop has passed its first broadcast
PastTxnBroadcast == pc \in {"sim_alert", "sim_done", "sim_raised"}

AlertsBroadcast == {i \in DOMAIN broadcasts : broadcasts[i].payload.type = "alert"}

\* C18: once process_txn has returned, with or without a case, sim_loop
\* hands the txn event with the score, level and reasons of the transaction
\* to broadcast first; an alert event is handed to broadcast only second,
\* after the txn event of the same transaction went through, and only for
\* the case of that transaction.
C18_TxnEventBeforeAlert ==
    /\ [](/\ PastTxnBroadcast =>
                /\ Len(broadcasts) >= 1
                /\ broadcasts[1].payload.type = "txn"
                /\ broadcasts[1].payload.txn.txn_id = txn.txn_id
                /\ broadcasts[1].payload.risk.risk_score = score_risk(txn).risk_score
                /\ broadcasts[1].payload.risk.risk_level = score_risk(txn).risk_level
                /\ broadcasts[1].payload.risk.reasons = score_risk(txn).reasons
          /\ \A i \in AlertsBroadcast :
                /\ i = 2
                /\ broadcasts[1].payload.type = "txn"
                /\ broadcasts[1].outcome # "raised"
                /\ broadcasts[1].payload.txn.txn_id = txn.txn_id
                /\ \E c \in CasesOf(txn.txn_id) : c.case_id = broadcasts[i].payload.case_id
          /\ pc = "sim_done" => ((AlertsBroadcast # {}) <=> (CasesOf(txn.txn_id) # {})))
    /\ [][(pc = "returned" /\ pc' # "returned") =>
              /\ Len(broadcasts') = 1
              /\ broadcasts'[1].payload = result.txn_event]_vars

\* a case was created and both events went out, txn event first
C18_Witness ==
    /\ pc = "sim_done"
    /\ Len(broadcasts) = 2
    /\ broadcasts[1].payload.type = "txn"
    /\ broadcasts[1].outcome = "sent"
    /\ broadcasts[2].payload.type = "alert"
    /\ broadcasts[2].outcome = "sent"
    /\ CasesOf(txn.txn_id) # {}

\* no case: the txn event alone
C18_WitnessNoCase ==
    /\ pc = "sim_done"
    /\ Len(broadcasts) = 1
    /\ broadcasts[1].payload.risk.risk_level = "MEDIUM"
    /\ cases = {}

----------------------------------------------------------------------------
(* simulator.py: seed_historical_transactions, called by on_startup at
   every start of the application on the same volume *)

TargetTotal == 2
MaxBoots == 3

\* a seeded transaction: a new txn_id, the other fields drawn at random
SeedTxns ==
    {[txn_id |-> Cardinality(transactions) + 1, ts |-> 1, account_id |-> "a1",
      customer_grade |-> "B", device_id |-> "d1", ip_address |-> "ip1",
      amount |-> 200, country |-> "ZW", channel |-> "card_not_present",
      transaction_type |-> "P2P_SEND", transaction_status |-> st,
      home_country |-> "ZW"] : st \in {"approved", "chargeback"}}

\* the number of rows the latest call has inserted goes up by one
CountInsert(runs) == [runs EXCEPT ![Len(runs)] = @ + 1]

InitSeed ==
    /\ Quiet
    /\ pc = "idle"
    /\ txn = NoTxn
    /\ risk = NoRisk
    /\ evidence = NoEvidence
    /\ dec = NoDec

\* os.path.exists(flag_path) is true: print and return
SeedSkips ==
    /\ seed_pc = "off"
    /\ Len(seed_runs) < MaxBoots
    /\ flag_file
    /\ seed_runs' = Append(seed_runs, 0)
    /\ UNCHANGED <<now, wsVars, flag_file, seed_pc, seed_i, simVars, rationale, transactions, cases,
                   pdf_files, pc, txn, risk, recent, reuse, evidence, dec, case, result,
                   uuid_counter, calls, returned>>

\* os.path.exists(flag_path) is false: go on to seed
SeedStarts ==
    /\ seed_pc = "off"
    /\ Len(seed_runs) < MaxBoots
    /\ ~flag_file
    /\ seed_runs' = Append(seed_runs, 0)
    /\ seed_i' = 0
    /\ seed_pc' = "insert"
    /\ UNCHANGED <<now, wsVars, flag_file, simVars, rationale, transactions, cases, pdf_files, pc, txn,
                   risk, recent, reuse, evidence, dec, case, result, uuid_counter, calls,
                   returned>>

\* the existence check raises: except Exception: pass, go on to seed
SeedCheckFails ==
    /\ seed_pc = "off"
    /\ Len(seed_runs) < MaxBoots
    /\ seed_runs' = Append(seed_runs, 0)
    /\ seed_i' = 0
    /\ seed_pc' = "insert"
    /\ UNCHANGED <<now, wsVars, flag_file, simVars, rationale, transactions, cases, pdf_files, pc, txn,
                   risk, recent, reuse, evidence, dec, case, result, uuid_counter, calls,
                   returned>>

\* one round of the loop: await insert_txn_fn(txn) commits the row
SeedInsertOk ==
    /\ seed_pc = "insert"
    /\ seed_i < TargetTotal
    /\ \E t \in SeedTxns : transactions' = transactions \cup {TransactionRow(t)}
    /\ seed_i' = seed_i + 1
    /\ seed_runs' = CountInsert(seed_runs)
    /\ UNCHANGED <<now, wsVars, flag_file, seed_pc, simVars, rationale, cases, pdf_files, pc, txn, risk,
                   recent, reuse, evidence, dec, case, result, uuid_counter, calls, returned>>

\* insert_txn_fn raises: the exception leaves seed_historical_transactions
SeedInsertRaises ==
    /\ seed_pc = "insert"
    /\ seed_i < TargetTotal
    /\ seed_pc' = "off"
    /\ UNCHANGED <<now, wsVars, flag_file, seed_i, seed_runs, simVars, rationale, transactions, cases,
                   pdf_files, pc, txn, risk, recent, reuse, evidence, dec, case, result,
                   uuid_counter, calls, returned>>

\* the loop is over and the flag file is written
SeedWritesFlag ==
    /\ seed_pc = "insert"
    /\ seed_i = TargetTotal
    /\ flag_file' = TRUE
    /\ seed_pc' = "off"
    /\ UNCHANGED <<now, wsVars, seed_i, seed_runs, simVars, rationale, transactions, cases, pdf_files, pc,
                   txn, risk, recent, reuse, evidence, dec, case, result, uuid_counter, calls,
                   returned>>

\* open or write raises: the message is printed and the call returns; the
\* file exists if open had created it before the failure
SeedFlagWriteFails ==
    /\ seed_pc = "insert"
    /\ seed_i = TargetTotal
    /\ flag_file' \in {flag_file, TRUE}
    /\ seed_pc' = "off"
    /\ UNCHANGED <<now, wsVars, seed_i, seed_runs, simVars, rationale, transactions, cases, pdf_files, pc,
                   txn, risk, recent, reuse, evidence, dec, case, result, uuid_counter, calls,
                   returned>>

NextSeed ==
    \/ SeedSkips
    \/ SeedStarts
    \/ SeedCheckFails
    \/ SeedInsertOk
    \/ SeedInsertRaises
    \/ SeedWritesFlag
    \/ SeedFlagWriteFails

SpecSeed == InitSeed /\ [][NextSeed]_vars

----------------------------------------------------------------------------
(* Properties of seed_historical_transactions (SpecSeed) *)

\* C19: once one call of seed_historical_transactions has inserted all
\* target_total transactions, no later call with the same flag_path inserts
\* a transaction, whether or not the flag write or the existence check
\* failed.
C19_SeedsAtMostOnce ==
    \A i, j \in DOMAIN seed_runs :
        (i < j /\ seed_runs[i] = TargetTotal) => seed_runs[j] = 0

----------------------------------------------------------------------------
(* Decisions of persisted cases (SpecSim) *)

\* a decision that is at least the one the risk level alone gives
NotLowered(level, d) ==
    /\ d.decision \in {"REVIEW", "BLOCK"}
    /\ d.decision # "APPROVE"
    /\ d.recommended_action # ActNone
    /\ level = "CRITICAL" => d.decision = "BLOCK"

\* C20: every persisted case has decision REVIEW or BLOCK, never APPROVE
\* and never the action "No action", and BLOCK when its level is CRITICAL;
\* whatever the evidence of an investigated transaction, the later rules of
\* decide leave the decision at or above the one set by the risk level.
C20_CaseNeverApproved ==
    /\ \A c \in cases :
          NotLowered(c.risk_level,
                     [decision |-> c.decision, recommended_action |-> c.recommended_action])
    /\ pc \in {"write_pdf", "insert_case"} =>
          /\ NotLowered(risk.risk_level, dec)
          /\ \A ev \in DecideEvidence : NotLowered(risk.risk_level, decide(txn_to_json(txn), risk, ev))

\* a HIGH case under REVIEW next to a CRITICAL case under BLOCK, both committed
C20_Witness ==
    /\ pc = "idle"
    /\ \E c \in cases : c.risk_level = "HIGH" /\ c.decision = "REVIEW"
    /\ \E c \in cases : c.risk_level = "CRITICAL" /\ c.decision = "BLOCK"

----------------------------------------------------------------------------
(* repo.py purge_old_data, run by on_startup and retention_loop while
   process_txn calls are in progress; time passes between their steps *)

RETENTION_DAYS == 7
MaxNow == 9

ClockTxnIds == {1, 2}

\* a transaction stamped with the current time (simulator.py line 118) and
\* a txn_id no row has
ClockTxns ==
    {t \in [txn_id : ClockTxnIds, ts : {now}, account_id : {"a1"},
            customer_grade : {"B"}, device_id : {"d1"}, ip_address : {"ip1"},
            amount : {200}, country : {"ZA"}, channel : {"card_not_present"},
            transaction_type : {"P2P_SEND"},
            transaction_status : {"approved", "chargeback"},
            home_country : {"ZW"}] :
        \A c \in cases : c.txn_id # t.txn_id}

ClockInsertTxnOk ==
    /\ pc = "idle"
    /\ \E t \in ClockTxns : InsertTxnCommits(t)
    /\ UNCHANGED <<now, wsVars, simVars, seedVars, rationale, cases, pdf_files,
                   recent, reuse, evidence, dec, case, uuid_counter>>

ClockInsertTxnRaises ==
    /\ pc = "idle"
    /\ \E t \in ClockTxns : txn' = t
    /\ calls' = <<"insert_txn">>
    /\ pc' = "raised"
    /\ UNCHANGED <<now, wsVars, simVars, seedVars, rationale, transactions, cases,
                   pdf_files, risk, recent, reuse, evidence, dec, case, result, uuid_counter,
                   returned>>

\* a day passes
Tick ==
    /\ now < MaxNow
    /\ now' = now + 1
    /\ UNCHANGED <<wsVars, simVars, seedVars, rationale, transactions, cases,
                   pdf_files, pc, txn, risk, recent, reuse, evidence, dec, case, result,
                   uuid_counter, calls, returned>>

\* purge_old_data(days): both deletes use one cutoff and commit together
purge_old_data(days) ==
    LET cutoff == now - days
    IN  /\ cases' = {c \in cases : ~(c.created_at < cutoff)}
        /\ transactions' = {r \in transactions : ~(r.ts < cutoff)}

PurgeOldData ==
    /\ purge_old_data(RETENTION_DAYS)
    /\ UNCHANGED <<now, wsVars, simVars, seedVars, rationale, pdf_files, pc, txn,
                   risk, recent, reuse, evidence, dec, case, result, uuid_counter, calls,
                   returned>>

NextPurge ==
    \/ ClockInsertTxnOk
    \/ ClockInsertTxnRaises
    \/ FetchRecentOk
    \/ FetchRecentRaises
    \/ FetchReuseOk
    \/ FetchReuseRaises
    \/ WritePdfOk
    \/ WritePdfRaises
    \/ InsertCaseOk
    \/ InsertCaseRaises
    \/ CallEnds
    \/ Tick
    \/ PurgeOldData

SpecPurge == Init /\ [][NextPurge]_vars

----------------------------------------------------------------------------
(* Properties of purge_old_data (SpecPurge) *)

\* C21: whatever the interleaving of process_txn and purge_old_data, every
\* row of cases has a txn_id for which a row of transactions exists.
C21_NoOrphanCase ==
    \A c \in cases : \E r \in transactions : r.txn_id = c.txn_id

\* a case committed one day after its transaction was stamped, left behind
\* by a purge whose cutoff fell between the two times
C21_OrphanAfterPurge ==
    /\ pc = "idle"
    /\ transactions = {}
    /\ \E c \in cases : c.created_at = 2 /\ now - RETENTION_DAYS = 2

----------------------------------------------------------------------------
(* main.py: the perf windows of sim_loop over a long stream, and the
   alert rate api_system reports from them *)

StreamLen == 202
AlertSlots == 2

\* the next stream transaction: a LOW one, or among the first AlertSlots
\* of the stream a CRITICAL one
RateTxns ==
    LET id == Cardinality(transactions) + 1
        quiet == [txn_id |-> id, ts |-> 1, account_id |-> "a1", customer_grade |-> "B",
                  device_id |-> "d1", ip_address |-> "ip1", amount |-> 200,
                  country |-> "ZW", channel |-> "card_not_present",
                  transaction_type |-> "P2P_SEND", transaction_status |-> "approved",
                  home_country |-> "ZW"]
        alert == [quiet EXCEPT !.country = "ZA", !.transaction_status = "chargeback"]
    IN  IF id > StreamLen THEN {}
        ELSE IF id <= AlertSlots THEN {quiet, alert} ELSE {quiet}

RateInsertTxnOk ==
    /\ pc = "idle"
    /\ \E t \in RateTxns : InsertTxnCommits(t)
    /\ UNCHANGED <<now, wsVars, simVars, seedVars, rationale, cases, pdf_files, recent, reuse,
                   evidence, dec, case, uuid_counter>>

RateInsertTxnRaises ==
    /\ pc = "idle"
    /\ \E t \in RateTxns : txn' = t
    /\ calls' = <<"insert_txn">>
    /\ pc' = "raised"
    /\ UNCHANGED <<now, wsVars, simVars, seedVars, rationale, transactions, cases, pdf_files,
                   risk, recent, reuse, evidence, dec, case, result, uuid_counter, returned>>

NextRate ==
    \/ RateInsertTxnOk
    \/ RateInsertTxnRaises
    \/ FetchRecentOk
    \/ FetchRecentRaises
    \/ FetchReuseOk
    \/ FetchReuseRaises
    \/ WritePdfOk
    \/ WritePdfRaises
    \/ InsertCaseOk
    \/ InsertCaseRaises
    \/ SimBroadcastTxn
    \/ SimBroadcastAlert
    \/ SimIterEnds

SpecRate == Init /\ [][NextRate]_vars

\* api_system: alert_rate_recent, in thousandths (round(x, 3)); None
\* while tx_window is empty
alert_rate_recent ==
    IF tx_window # <<>>
        THEN RoundDiv(1000 * Len(alerts_window), Len(tx_window))
        ELSE NoneNum

----------------------------------------------------------------------------
(* Properties of the alert rate (SpecRate) *)

\* txn_ids of the transactions process_txn has returned for
ProcessedIds == {r[1] : r \in returned}

\* the most recent min(n, 200) of them
RecentProcessedIds ==
    {i \in ProcessedIds : Cardinality({j \in ProcessedIds : j > i}) < 200}

\* those of them that raised an alert
RecentAlertIds ==
    {i \in RecentProcessedIds : \E l \in HighLevels : <<i, l>> \in returned}

\* C22: between iterations of sim_loop the reported alert rate is the
\* number of alerts among the most recent min(n, 200) processed
\* transactions over that number of transactions, and lies within 0..1.
C22_AlertRateOverRecent ==
    (pc = "idle" /\ ProcessedIds # {}) =>
        /\ alert_rate_recent =
              RoundDiv(1000 * Cardinality(RecentAlertIds), Cardinality(RecentProcessedIds))
        /\ alert_rate_recent >= 0
        /\ alert_rate_recent <= 1000

\* 201 transactions processed, the first one with an alert, every
\* broadcast gone through: the alert is still counted in the rate
C22_StaleAlertCounted ==
    /\ pc = "idle"
    /\ Cardinality(ProcessedIds) = 201
    /\ Len(tx_window) = 200
    /\ Len(alerts_window) = 1
    /\ RecentAlertIds = {}
    /\ <<1, "CRITICAL">> \in returned
    /\ alert_rate_recent = 5

----------------------------------------------------------------------------
(* main.py: the /ws handler and broadcast. broadcast iterates the
   clients set itself and is suspended in every send; the handlers of other
   connections run meanwhile. A Python set iterator raises RuntimeError
   ("Set changed size during iteration") at its next step when the size of the
   set differs from the size at the start of the loop; when the size is
   the same it goes on through the slots of the table, so that a member
   added meanwhile is reached or not, and one discarded meanwhile is not. *)

MaxSockets == 3
MaxBroadcasts == 2
Sockets == 1 .. MaxSockets

Range(s) == {s[k] : k \in 1 .. Len(s)}

\* ws: accept, then clients.add(websocket). A connection is a fresh
\* WebSocket object: none the running broadcast has met
WsConnect ==
    /\ \E w \in Sockets \ (clients \cup bc.start \cup bc.visited) :
           clients' = clients \cup {w}
    /\ UNCHANGED <<bc, now, simVars, seedVars, rationale, transactions, cases, pdf_files, pc,
                   txn, risk, recent, reuse, evidence, dec, case, result, uuid_counter,
                   calls, returned>>

\* ws: receive_text raises, clients.discard(websocket)
WsDisconnect ==
    /\ \E w \in clients : clients' = clients \ {w}
    /\ UNCHANGED <<bc, now, simVars, seedVars, rationale, transactions, cases, pdf_files, pc,
                   txn, risk, recent, reuse, evidence, dec, case, result, uuid_counter,
                   calls, returned>>

\* broadcast: `if not clients: return`, else dead = [] and the loop begins
BroadcastStart ==
    /\ bc.pc = "off"
    /\ Len(broadcasts) < MaxBroadcasts
    /\ bc' = IF clients = {}
                THEN [NoBroadcast EXCEPT !.pc = "done"]
                ELSE [NoBroadcast EXCEPT !.pc = "iterating", !.start = clients,
                                         !.used = Cardinality(clients)]
    /\ UNCHANGED <<clients, now, simVars, seedVars, rationale, transactions, cases, pdf_files,
                   pc, txn, risk, recent, reuse, evidence, dec, case, result, uuid_counter,
                   calls, returned>>

\* `for ws in dead: clients.discard(ws)`: no await, one step
DiscardDead(d) == clients \ Range(d)

\* the next step of `for ws in clients`
BroadcastNext ==
    /\ bc.pc = "iterating"
    /\ IF Cardinality(clients) # bc.used
          THEN /\ bc' = [bc EXCEPT !.pc = "raised"]
               /\ UNCHANGED clients
          ELSE LET left == clients \ bc.visited
               IN  \/ /\ \E w \in left :
                            bc' = [bc EXCEPT !.pc = "sending", !.cur = w,
                                             !.visited = @ \cup {w}]
                      /\ UNCHANGED clients
                   \/ /\ left \cap bc.start = {}
                      /\ clients' = DiscardDead(bc.dead)
                      /\ bc' = [bc EXCEPT !.pc = "done",
                                          !.removed = clients \ DiscardDead(bc.dead)]
    /\ UNCHANGED <<now, simVars, seedVars, rationale, transactions, cases, pdf_files,
                   pc, txn, risk, recent, reuse, evidence, dec, case, result, uuid_counter,
                   calls, returned>>

\* await ws.send_text(msg) returns
BroadcastSendOk ==
    /\ bc.pc = "sending"
    /\ bc' = [bc EXCEPT !.pc = "iterating", !.cur = 0]
    /\ UNCHANGED <<clients, now, simVars, seedVars, rationale, transactions, cases, pdf_files,
                   pc, txn, risk, recent, reuse, evidence, dec, case, result, uuid_counter,
                   calls, returned>>

\* await ws.send_text(msg) raises: dead.append(ws)
BroadcastSendFails ==
    /\ bc.pc = "sending"
    /\ bc' = [bc EXCEPT !.pc = "iterating", !.cur = 0, !.dead = Append(@, bc.cur)]
    /\ UNCHANGED <<clients, now, simVars, seedVars, rationale, transactions, cases, pdf_files,
                   pc, txn, risk, recent, reuse, evidence, dec, case, result, uuid_counter,
                   calls, returned>>

\* broadcast is over: it returned, or sim_loop caught what it raised; the
\* outcome is one of BroadcastOutcomes
BroadcastEnds ==
    /\ bc.pc \in {"done", "raised"}
    /\ bc' = NoBroadcast
    /\ broadcasts' = Append(broadcasts,
                           [payload |-> [type |-> "txn"],
                            outcome |-> IF bc.pc = "raised" THEN "raised"
                                        ELSE IF bc.used = 0 THEN "no_clients" ELSE "sent"])
    /\ UNCHANGED <<clients, now, tx_window, alerts_window, seedVars, rationale, transactions, cases, pdf_files,
                   pc, txn, risk, recent, reuse, evidence, dec, case, result, uuid_counter,
                   calls, returned>>

NextBroadcast ==
    \/ WsConnect
    \/ WsDisconnect
    \/ BroadcastStart
    \/ BroadcastNext
    \/ BroadcastSendOk
    \/ BroadcastSendFails
    \/ BroadcastEnds

SpecBroadcast == Init /\ [][NextBroadcast]_vars

----------------------------------------------------------------------------
(* Properties of broadcast (SpecBroadcast) *)

\* C23: broadcast never raises, and when it completes it has attempted a
\* send to every client of the set at the start of the call, no client
\* whose send failed is left in the set, and it removed no other client.
C23_BroadcastReachesAll ==
    /\ bc.pc # "raised"
    /\ bc.pc = "done" =>
          /\ bc.start \subseteq bc.visited
          /\ Range(bc.dead) \cap clients = {}
          /\ bc.removed \subseteq Range(bc.dead)

\* a client discarded by its handler during a send: the loop raises
C23_RaisedOnDiscard ==
    /\ bc.pc = "raised"
    /\ bc.start = {1, 2}
    /\ bc.visited = {1}
    /\ bc.dead = <<1>>
    /\ clients = {1}

\* one client discarded and one added during a send: the loop completes
\* without a send to the discarded one
C23_StartClientSkipped ==
    /\ bc.pc = "done"
    /\ bc.start = {1, 2}
    /\ 2 \notin bc.visited
    /\ 3 \in clients

====
